---------------------------- MODULE Spec2Model ----------------------------
(***************************************************************************)
(* A model of the terminal code assistant of src/agent.py: the turn        *)
(* controller (model_response / tool_use / check_tool_use), the driver     *)
(* loop (run) with its direct commands and shortcuts, the auto-fix loop    *)
(* (fix_errors_loop) and the numbered-option formatter                     *)
(* (_format_with_numbers).                                                 *)
(*                                                                         *)
(* A text is a sequence of characters.  A character is a one-character     *)
(* string; a word whose inner letters play no role in the code (a plain    *)
(* word, a fixed phrase of a format string, a markup tag) is written as    *)
(* one multi-letter string and behaves as one non-blank character.         *)
(***************************************************************************)
EXTENDS Naturals, Sequences, FiniteSets, TLC

VARIABLES
    pc,            \* where run() is: "input", "model_response", "tool_use", "stopped"
    log,           \* the messages checkpointed under the current thread id
    thread_id,     \* config["configurable"]["thread_id"]
    store,         \* checkpoints.db: the messages kept under the other thread ids
    handled,       \* what run() did with the input it read last
    selected,      \* the keys of self.last_options typed since it was last built
    steps,         \* supersteps the graph has run for the current input
    last_options,  \* self.last_options
    model_input,   \* the list last passed to llm_with_tools.invoke
    invoked,       \* the tool invocations of the last tool_use, with what each did
    turn_error,    \* the exception the driver reported for the last turn
    next_id,       \* number of tool-call identifiers issued so far
    turns,         \* number of inputs read so far
    fmt_pc,        \* formatter harness: "off", "ready", "formatted", "again", "selected"
    fmt_in,        \* formatter harness: the text given to _format_with_numbers
    fmt_prior,     \* formatter harness: self.last_options before the call
    fmt_out,       \* formatter harness: the text it returned
    fmt_key,       \* formatter harness: the bare integer typed next
    fmt_sel,       \* formatter harness: user_input after the option check
    fix_pc,        \* auto-fix harness: "off", "ready", "done"
    fix_in,        \* auto-fix harness: the path, the file and the answers of the model
    fix_out        \* auto-fix harness: what fix_errors_loop did

vars == <<pc, log, thread_id, store, handled, selected, steps, last_options,
          model_input, invoked, turn_error, next_id, turns,
          fmt_pc, fmt_in, fmt_prior, fmt_out, fmt_key, fmt_sel,
          fix_pc, fix_in, fix_out>>

agentVars == <<pc, log, thread_id, store, handled, selected, steps,
               model_input, invoked, turn_error, next_id, turns>>
fmtVars == <<fmt_pc, fmt_in, fmt_prior, fmt_out, fmt_key, fmt_sel>>
fixVars == <<fix_pc, fix_in, fix_out>>
\* the variables of the two harnesses
sideVars == <<fmtVars, fixVars>>

----------------------------------------------------------------------------
(* Bounds of the model.                                                    *)

\* most lines of a text the formatter harness enumerates
MaxLines == 3
\* largest bare integer the formatter harness types
MaxKey == 3
\* inputs read plus tool calls asked for
MaxWork == 4
\* inputs read when the turn controller is followed to its step limit
MaxLongTurns == 2
\* inputs read plus tool calls asked for when the driver is looked at
MaxInputs == 2

----------------------------------------------------------------------------
(* Characters and texts.                                                   *)

NL == "\n"

\* characters Python's \s and str.strip treat as blank
Whitespace == {" ", "\t", NL}

\* the character class of the bullet pattern, as the source file spells it
BulletChars == {"U+201A", "U+00C4", "U+00A2", "-", "*"}

Digits == <<"0", "1", "2", "3", "4", "5", "6", "7", "8", "9">>

DigitChars == {Digits[i] : i \in 1..10}

\* str(n) for a natural number
RECURSIVE Str(_)
Str(n) ==
    IF n < 10 THEN <<Digits[n + 1]>>
    ELSE Str(n \div 10) \o <<Digits[(n % 10) + 1]>>

\* text.split('\n')
RECURSIVE SplitAcc(_, _, _, _)
SplitAcc(text, i, cur, acc) ==
    IF i > Len(text) THEN Append(acc, cur)
    ELSE IF text[i] = NL THEN SplitAcc(text, i + 1, <<>>, Append(acc, cur))
    ELSE SplitAcc(text, i + 1, Append(cur, text[i]), acc)

Split(text) == SplitAcc(text, 1, <<>>, <<>>)

\* '\n'.join(lines)
RECURSIVE Join(_)
Join(lines) ==
    IF Len(lines) = 0 THEN <<>>
    ELSE IF Len(lines) = 1 THEN lines[1]
    ELSE lines[1] \o <<NL>> \o Join(Tail(lines))

\* length of the run of blanks of line that starts at position i
RECURSIVE WsRun(_, _)
WsRun(line, i) ==
    IF i <= Len(line) /\ line[i] \in Whitespace THEN 1 + WsRun(line, i + 1)
    ELSE 0

\* user_input.strip()
Strip(text) ==
    LET lead == WsRun(text, 1)
        last == IF lead = Len(text) THEN 0
                ELSE CHOOSE j \in 1..Len(text) :
                        /\ text[j] \notin Whitespace
                        /\ \A k \in (j + 1)..Len(text) : text[k] \in Whitespace
    IN  IF lead = Len(text) THEN <<>> ELSE SubSeq(text, lead + 1, last)

\* str.isdigit()
IsDigit(text) == Len(text) > 0 /\ \A i \in 1..Len(text) : text[i] \in DigitChars

\* str.split(): the maximal runs of non-blank characters
RECURSIVE SplitWordsAcc(_, _, _, _)
SplitWordsAcc(text, i, cur, acc) ==
    IF i > Len(text) THEN (IF cur = <<>> THEN acc ELSE Append(acc, cur))
    ELSE IF text[i] \in Whitespace
        THEN SplitWordsAcc(text, i + 1, <<>>, IF cur = <<>> THEN acc ELSE Append(acc, cur))
    ELSE SplitWordsAcc(text, i + 1, Append(cur, text[i]), acc)

SplitWords(text) == SplitWordsAcc(text, 1, <<>>, <<>>)

----------------------------------------------------------------------------
(* The numbered-option formatter.                                          *)

NoMatch == [matched |-> FALSE, indent |-> <<>>, content |-> <<>>]

\* re.match(r'^(\s*)[<bullets>]\s+(.+)$', line): \s* and \s+ are greedy, and
\* \s+ gives back its last blank when nothing else is left for (.+)
BulletMatch(line) ==
    LET n == WsRun(line, 1)
        b == n + 1
        w == IF b <= Len(line) THEN WsRun(line, b + 1) ELSE 0
        rest == b + w + 1
    IN  IF b > Len(line) THEN NoMatch
        ELSE IF line[b] \notin BulletChars \/ w = 0 THEN NoMatch
        ELSE IF rest <= Len(line)
            THEN [matched |-> TRUE, indent |-> SubSeq(line, 1, n),
                  content |-> SubSeq(line, rest, Len(line))]
        ELSE IF w >= 2
            THEN [matched |-> TRUE, indent |-> SubSeq(line, 1, n),
                  content |-> <<line[Len(line)]>>]
        ELSE NoMatch

NoOptions == [k \in {} |-> <<>>]

\* self.last_options[key] = content
MapPut(f, key, val) ==
    [k \in (DOMAIN f) \cup {key} |-> IF k = key THEN val ELSE f[k]]

\* a numbered line whose number is not the running counter
NumberedLineNoIncrement(indent, option_num, content) ==
    indent \o <<"*", "*">> \o Str(1) \o <<".", "*", "*", " ">> \o content

\* f"{indent}**{option_num}.** {content}"
NumberedLine(indent, option_num, content) ==
    indent \o <<"*", "*">> \o Str(option_num) \o <<".", "*", "*", " ">> \o content

\* the loop over lines of _format_with_numbers
RECURSIVE FormatLines(_, _, _, _, _)
FormatLines(lines, i, option_num, opts, out) ==
    IF i > Len(lines) THEN [lines |-> out, options |-> opts]
    ELSE LET m == BulletMatch(lines[i])
         IN  IF m.matched
             THEN FormatLines(lines, i + 1, option_num + 1,
                              MapPut(opts, Str(option_num), m.content),
                              Append(out, NumberedLine(m.indent, option_num, m.content)))
             ELSE FormatLines(lines, i + 1, option_num, opts, Append(out, lines[i]))

\* f"\n\n*Tip: Type a number (1-{len(self.last_options)}) to select an option*"
TipText(opts) ==
    <<NL, NL, "*Tip: Type a number (1-">> \o Str(Cardinality(DOMAIN opts))
        \o <<") to select an option*">>

\* the map not reset at the start of the call
KeepOptions(prior) == prior

\* self.last_options = {}
ResetOptions(prior) == NoOptions

\* _format_with_numbers(text) for a string, self.last_options being prior:
\* the text returned and the self.last_options it leaves
FormatWithNumbers(text, prior) ==
    LET r == FormatLines(Split(text), 1, 1, ResetOptions(prior), <<>>)
        joined == Join(r.lines)
    IN  [result |-> IF DOMAIN r.options # {} THEN joined \o TipText(r.options)
                    ELSE joined,
         last_options |-> r.options]

\* run(): a typed number that is a key of last_options is replaced by
\* the option text
ResolveOption(user_input, opts) ==
    IF IsDigit(Strip(user_input)) /\ Strip(user_input) \in DOMAIN opts
    THEN opts[Strip(user_input)]
    ELSE user_input

\* _display_quick_start(): the options set at the end of initialize()
QuickStartOptions ==
    [k \in {Str(i) : i \in 1..5} |->
        CASE k = Str(1) -> <<"List all files in current directory">>
          [] k = Str(2) -> <<"Show available tools">>
          [] k = Str(3) -> <<"Scan entire project">>
          [] k = Str(4) -> <<"Read the README.md file">>
          [] OTHER -> <<"Show advanced help">>]

----------------------------------------------------------------------------
(* Messages.                                                               *)

HumanMessage(c) ==
    [type |-> "human", content |-> c, tool_calls |-> <<>>, tool_call_id |-> 0]

AIMessage(c, calls) ==
    [type |-> "ai", content |-> c, tool_calls |-> calls, tool_call_id |-> 0]

ToolMessage(c, id) ==
    [type |-> "tool", content |-> c, tool_calls |-> <<>>, tool_call_id |-> id]

\* SystemMessage(content="""You MUST call tools. ...""")
system_message ==
    [type |-> "system",
     content |-> <<"You MUST call tools. ... CALL TOOLS DIRECTLY.">>,
     tool_calls |-> <<>>, tool_call_id |-> 0]

----------------------------------------------------------------------------
(* model_response: the list handed to the model.                           *)

\* the retention window of model_response
Window == 10

\* messages[-Window:] when len(messages) > Window
Trim(messages) ==
    IF Len(messages) > Window
    THEN SubSeq(messages, Len(messages) - Window + 1, Len(messages))
    ELSE messages

\* the system message written over the first message, whatever that is
WithSystemOverwrite(messages) == [messages EXCEPT ![1] = system_message]

\* the system message is put in front, or replaces a leading system message
WithSystem(messages) ==
    IF Len(messages) = 1 THEN <<system_message>> \o messages
    ELSE IF messages[1].type = "system"
        THEN [messages EXCEPT ![1] = system_message]
    ELSE <<system_message>> \o messages

\* str.lower() of a word
Lower(ch) ==
    CASE ch = "GitHub" -> "github"
      [] ch = "Push" -> "push"
      [] ch = "Exit" -> "exit"
      [] ch = "codeAssistent" -> "codeassistent"
      [] ch = "List all files in current directory" -> "list all files in current directory"
      [] OTHER -> ch

\* str.lower() of a text
LowerText(text) == [i \in 1..Len(text) |-> Lower(text[i])]

\* the lower-case words of the vocabulary that contain 'push', 'upload',
\* 'github' or 'repo'
KeywordWords ==
    {"push", "upload", "github", "repo", "repos", "repository", "push_folder"}

\* any(word in last_msg.lower() for word in ['push', 'upload', 'github', 'repo'])
HasKeyword(text) == \E i \in 1..Len(text) : Lower(text[i]) \in KeywordWords

\* "\n\n[SYSTEM: You MUST call the appropriate tool NOW. Do not respond with text.]"
Directive ==
    <<NL, NL, "[SYSTEM: You MUST call the appropriate tool NOW. Do not respond with text.]">>

\* messages[-1] = HumanMessage(content=f"{last_msg}...") when a keyword occurs
ForceToolUse(messages) ==
    LET last_msg == messages[Len(messages)].content
    IN  IF HasKeyword(last_msg)
        THEN [messages EXCEPT ![Len(messages)] = HumanMessage(last_msg \o Directive)]
        ELSE messages

\* what model_response passes to self.llm_with_tools.invoke
BuildInput(messages) == ForceToolUse(WithSystem(Trim(messages)))

\* check_tool_use: the node that follows model_response
check_tool_use(messages) ==
    IF Len(messages[Len(messages)].tool_calls) > 0 THEN "tool_use" ELSE "input"

----------------------------------------------------------------------------
(* The tool registry: self.tools, in the order it is extended.             *)

Tool(name, mcp) == [name |-> name, mcp |-> mcp]

\* get_local_tools()
local_tools == <<Tool("read_file", FALSE)>>

\* get_github_tools()
github_tools == <<Tool("push_folder", FALSE), Tool("quick_push_file", FALSE)>>

\* get_github_list_tools()
github_list_tools == <<Tool("list_my_repos", FALSE), Tool("get_repo_info", FALSE)>>

\* get_web_tools()
web_tools ==
    <<Tool("search_web", FALSE), Tool("read_webpage", FALSE),
      Tool("search_langchain_docs", FALSE), Tool("search_langgraph_docs", FALSE),
      Tool("search_mcp_docs", FALSE), Tool("search_python_docs", FALSE),
      Tool("search_stackoverflow", FALSE), Tool("get_library_info", FALSE)>>

\* await get_mcp_tools(): what the server offers, here one tool of its own
\* and one under a name the web tools already use
mcp_tools == <<Tool("create_issue", TRUE), Tool("search_web", TRUE)>>

\* the tools of the server put before the web tools
toolsServerFirst ==
    local_tools \o github_tools \o github_list_tools \o mcp_tools \o web_tools

\* self.tools after __init__ and initialize
tools == local_tools \o github_tools \o github_list_tools \o web_tools \o mcp_tools

\* next((t for t in self.tools if t.name == tool_name), None); 0 stands for None
FindTool(tool_name) ==
    IF \E i \in 1..Len(tools) : tools[i].name = tool_name
    THEN CHOOSE i \in 1..Len(tools) :
            /\ tools[i].name = tool_name
            /\ \A j \in 1..(i - 1) : tools[j].name # tool_name
    ELSE 0

----------------------------------------------------------------------------
(* console.print of a string: the console markup is parsed, and a closing  *)
(* tag that closes no open tag raises MarkupError.                         *)

OpenTags == {"[b]", "[dim]", "[bold red]", "[bold yellow]", "[bold green]", "[magenta]",
             "[green]", "[yellow]", "[red]"}

CloseTags == {"[/b]", "[/url]", "[/dim]", "[/bold red]", "[/bold yellow]",
              "[/bold green]", "[/magenta]", "[/green]", "[/yellow]", "[/red]"}

\* the opening tag a closing tag closes
OpenOf(tag) ==
    CASE tag = "[/b]" -> "[b]"
      [] tag = "[/url]" -> "[url]"
      [] tag = "[/dim]" -> "[dim]"
      [] tag = "[/bold red]" -> "[bold red]"
      [] tag = "[/bold yellow]" -> "[bold yellow]"
      [] tag = "[/bold green]" -> "[bold green]"
      [] tag = "[/green]" -> "[green]"
      [] tag = "[/yellow]" -> "[yellow]"
      [] tag = "[/red]" -> "[red]"
      [] OTHER -> "[magenta]"

\* the stack of open tags without its topmost occurrence of tag
PopTag(stack, tag) ==
    LET j == CHOOSE k \in 1..Len(stack) :
                /\ stack[k] = tag
                /\ \A l \in (k + 1)..Len(stack) : stack[l] # tag
    IN  SubSeq(stack, 1, j - 1) \o SubSeq(stack, j + 1, Len(stack))

\* the first closing tag of text, from position i on, that closes nothing
\* (given the tags open so far); "" when the markup is well formed
RECURSIVE BadTag(_, _, _)
BadTag(text, i, stack) ==
    IF i > Len(text) THEN ""
    ELSE IF text[i] \in OpenTags THEN BadTag(text, i + 1, Append(stack, text[i]))
    ELSE IF text[i] \in CloseTags
        THEN IF \E k \in 1..Len(stack) : stack[k] = OpenOf(text[i])
             THEN BadTag(text, i + 1, PopTag(stack, OpenOf(text[i])))
             ELSE text[i]
    ELSE BadTag(text, i + 1, stack)

\* console.print(text) raises
PrintRaises(text) == BadTag(text, 1, <<>>) # ""

\* str(e) of the MarkupError that console.print(text) raises
MarkupErrorText(text) ==
    <<"closing tag '", BadTag(text, 1, <<>>), "' at position N doesn't match any open tag">>

----------------------------------------------------------------------------
(* tool_use: one pass over the tool calls of the last message.             *)

\* what a registered tool may do when invoked: return a result or raise
ResultTexts == {<<"found">>, <<"see", " ", "[/url]">>}

ErrorTexts == {<<"GitHub", " ", "timed out">>, <<"bad tag", " ", "[/b]">>}

Outcomes ==
    [kind : {"returns"}, text : ResultTexts] \cup [kind : {"raises"}, text : ErrorTexts]

\* result of handling one call: a message to append, or an exception that
\* leaves tool_use; invoked lists the tools that were run
Handled(msg, inv) == [raised |-> FALSE, error |-> <<>>, msg |-> msg, invoked |-> inv]

Escaped(e, inv) ==
    [raised |-> TRUE, error |-> e, msg |-> ToolMessage(<<>>, 0), invoked |-> inv]

\* f"[bold red]{error_msg}[/bold red]"
BoldRed(error_msg) == <<"[bold red]">> \o error_msg \o <<"[/bold red]">>

\* the except clause: the error text becomes the tool message, once printed
ExceptClause(call, e, inv) ==
    LET error_msg == <<"Tool error: ">> \o e
    IN  IF PrintRaises(BoldRed(error_msg))
        THEN Escaped(MarkupErrorText(BoldRed(error_msg)), inv)
        ELSE Handled(ToolMessage(error_msg, call.id), inv)

\* the else branch: no tool of that name
NotFound(call) ==
    LET error_msg == <<"Tool ", call.name, " not found">>
    IN  IF PrintRaises(BoldRed(error_msg))
        THEN Escaped(MarkupErrorText(BoldRed(error_msg)), <<>>)
        ELSE Handled(ToolMessage(error_msg, call.id), <<>>)

\* the body of the loop of tool_use for one tool call, the tool doing outcome
RunCall(call, outcome) ==
    LET executing == <<NL, "[bold yellow]", "Executing tool:", "[/bold yellow]", " ",
                       "[magenta]", call.name, "[/magenta]">>
        arguments == <<"[dim]", "Arguments: ">> \o call.args \o <<"[/dim]", NL>>
        tool == FindTool(call.name)
        inv == <<[id |-> call.id, name |-> call.name, async |-> tools[tool].mcp,
                  outcome |-> outcome]>>
        title == <<"[bold green]", "Tool Result: ", call.name, "[/bold green]">>
    IN  IF PrintRaises(executing) THEN Escaped(MarkupErrorText(executing), <<>>)
        ELSE IF PrintRaises(arguments) THEN Escaped(MarkupErrorText(arguments), <<>>)
        ELSE IF tool = 0 THEN NotFound(call)
        ELSE IF outcome.kind = "raises" THEN ExceptClause(call, outcome.text, inv)
        ELSE IF PrintRaises(title) THEN ExceptClause(call, MarkupErrorText(title), inv)
        ELSE IF PrintRaises(outcome.text)
            THEN ExceptClause(call, MarkupErrorText(outcome.text), inv)
        ELSE Handled(ToolMessage(outcome.text, call.id), inv)

\* the loop of tool_use over tool_calls, call i doing oc[i]
RECURSIVE RunCalls(_, _, _, _, _)
RunCalls(calls, oc, i, tool_messages, inv) ==
    IF i > Len(calls)
    THEN [raised |-> FALSE, error |-> <<>>, msgs |-> tool_messages, invoked |-> inv]
    ELSE LET r == RunCall(calls[i], oc[i])
         IN  IF r.raised
             THEN [raised |-> TRUE, error |-> r.error, msgs |-> tool_messages,
                   invoked |-> inv \o r.invoked]
             ELSE RunCalls(calls, oc, i + 1, Append(tool_messages, r.msg),
                           inv \o r.invoked)

----------------------------------------------------------------------------
(* run_code and fix_errors_loop: the auto-fix loop of "!fix <file>".       *)

\* self.max_retries
max_retries == 3

\* the content read at a path where no file is
Absent == <<"(no such file)">>

\* file_path.endswith('.py')
EndsWithPy(file_path) == Len(file_path) > 0 /\ file_path[Len(file_path)] \in {"f.py", ".py"}

\* run_code(file_path), the file holding content: what python does with it
run_code(file_path, content) ==
    IF ~EndsWithPy(file_path)
    THEN [stdout |-> <<>>, stderr |-> <<"Unsupported file type">>, code |-> 1]
    ELSE IF content = Absent
        THEN [stdout |-> <<>>, stderr |-> <<"can't open file">>, code |-> 2]
    ELSE IF content = <<"ok">>
        THEN [stdout |-> <<"done">>, stderr |-> <<>>, code |-> 0]
    ELSE IF content = <<"loud">>
        THEN [stdout |-> <<"see", " ", "[/url]">>, stderr |-> <<>>, code |-> 0]
    ELSE [stdout |-> <<>>, stderr |-> <<"ZeroDivisionError: division by zero">>, code |-> 1]

\* the markers of a fenced block: three backquotes, written (fence) here,
\* alone or followed by the word python
Fences == {"(fence)", "(fence)python"}

\* the first position of text, from i on, that holds one of toks
RECURSIVE FindFrom(_, _, _)
FindFrom(text, i, toks) ==
    IF i > Len(text) \/ text[i] \in toks THEN i ELSE FindFrom(text, i + 1, toks)

\* the text between the first python fence (or, when there is none, the
\* first fence) and the fence after it, stripped; the answer as it is when
\* it has no fence
ExtractCode(fixed_code) ==
    LET opener == IF \E i \in 1..Len(fixed_code) : fixed_code[i] = "(fence)python"
                  THEN {"(fence)python"} ELSE {"(fence)"}
        a == FindFrom(fixed_code, 1, opener)
        b == FindFrom(fixed_code, a + 1, Fences)
    IN  IF a > Len(fixed_code) THEN fixed_code
        ELSE Strip(SubSeq(fixed_code, a + 1, b - 1))

\* what fix_errors_loop did: how it ended ("True", "False", or "raised" with
\* the exception text), the contents it ran with their exit codes, the number
\* of self.llm.invoke calls, and what the file and its backup hold at the end
FixEnd(result, error, runs, asks, content, backup) ==
    [result |-> result, error |-> error, runs |-> runs, asks |-> asks,
     file |-> content, backup |-> backup]

\* the body of the loop from attempt on, answers[i] being what the model does
\* when asked the i-th time
RECURSIVE FixFrom(_, _, _, _, _, _, _)
FixFrom(file_path, attempt, content, backup, answers, runs, asks) ==
    IF attempt > max_retries
    THEN FixEnd("False", <<>>, runs, asks, content, backup)
    ELSE LET r == run_code(file_path, content)
             ran == Append(runs, [content |-> content, code |-> r.code])
         IN  IF r.code = 0
             THEN IF PrintRaises(r.stdout)
                  THEN FixEnd("raised", MarkupErrorText(r.stdout), ran, asks, content, backup)
                  ELSE FixEnd("True", <<>>, ran, asks, content, backup)
             ELSE IF PrintRaises(r.stderr)
                 THEN FixEnd("raised", MarkupErrorText(r.stderr), ran, asks, content, backup)
             ELSE IF content = Absent
                 THEN FixEnd("raised", <<"No such file or directory">>, ran, asks,
                             content, backup)
             ELSE IF answers[attempt].raises
                 THEN FixEnd("raised", answers[attempt].text, ran, asks + 1, content, backup)
             ELSE FixFrom(file_path, attempt + 1, ExtractCode(answers[attempt].text),
                          content, answers, ran, asks + 1)

\* fix_errors_loop(file_path), the file holding content
fix_errors_loop(file_path, content, answers) ==
    FixFrom(file_path, 1, content, Absent, answers, <<>>, 0)

\* what the file may hold, and what the model may answer to a fix prompt
FixFiles == {Absent, <<"v0">>, <<"ok">>, <<"loud">>}

FixAnswers ==
    {[raises |-> FALSE, text |-> <<"(fence)python", NL, "ok", NL, "(fence)">>],
     [raises |-> FALSE, text |-> <<"Try:", NL, "(fence)", NL, "v1", NL, "(fence)", NL, "Done.">>],
     [raises |-> FALSE, text |-> <<"loud">>],
     [raises |-> TRUE, text |-> <<"rate limit reached">>]}

FixPaths == {<<"f.py">>, <<"notes.md">>}

----------------------------------------------------------------------------
(* What the user, the model and the files may say.                         *)

UserInputs == {<<"hello">>, <<"Push", " ", "it">>}

\* what the user may type when the driver is looked at
DriverInputs ==
    {<<"hello">>,
     <<" ">>, <<"Exit">>, <<"help">>, <<"tools">>, <<"clear">>,
     <<"1">>, <<"2">>, <<" ", "3">>, <<"4">>, <<"9">>,
     <<"!">>, <<"!", "read", " ", "f.py">>, <<"!", "run", " ", "f.py">>,
     <<"!", "fix", " ", "f.py">>, <<"!", "edit", " ", "f.py">>, <<"!", "scan">>,
     <<"!", "repos">>, <<"!", "help">>, <<"!", "fix">>, <<"!", "x", "[/b]">>,
     <<"list", " ", "my", " ", "repos">>,
     <<"push", " ", "my", " ", "folder">>,
     <<"Push", " ", "codeAssistent", " ", "folder">>}

\* an answer whose bullets are a direct command, an exit keyword, a shortcut
\* and a text with a closing tag
Bulleted ==
    <<"-", " ", "!", "scan", NL, "-", " ", "exit", NL,
      "-", " ", "push", " ", "folder", NL, "-", " ", "see", " ", "[/url]">>

AIContents == {<<>>, <<"-", " ", "fix it">>}

AskedNames == {"search_web", "missing_tool"}

ArgTexts == {<<"{'query': 'x'}">>}

\* the tool-call lists of n calls with fresh identifiers after nid
CallLists(nid, n) ==
    {[i \in 1..n |-> [id |-> nid + i, name |-> names[i], args |-> args[i]]] :
        names \in [1..n -> AskedNames], args \in [1..n -> ArgTexts]}

\* the assistant messages the model may return
Responses(nid, room) ==
    {AIMessage(c, calls) :
        c \in AIContents,
        calls \in UNION {CallLists(nid, n) : n \in 0..room}}

\* the assistant messages the model may return when the driver is looked at:
\* an answer with bullets, or no text and one call, to a name registered
\* twice or to a name only the server offers
DriverResponses(nid, room) ==
    {AIMessage(Bulleted, <<>>)} \cup
    (IF room > 0
     THEN {AIMessage(<<>>, <<[id |-> nid + 1, name |-> name,
                              args |-> <<"{'query': 'x'}">>]>>) :
              name \in {"search_web", "create_issue"}}
     ELSE {})

\* the exceptions self.llm_with_tools.invoke may raise
ModelErrors == {<<"rate limit reached">>, <<"tool call validation failed", " ", "[/b]">>}

\* the file and the model as a direct command finds them
DirectEnvs ==
    [file : {Absent, <<"v0">>, <<"loud">>},
     answers : [1..max_retries -> {a \in FixAnswers : a.raises \/ a.text[1] = "Try:"}]]

----------------------------------------------------------------------------
(* run(): how an input is recognised.                                      *)

\* the lower-case words of the vocabulary that contain sub
WordsWith(sub) ==
    CASE sub = "my" -> {"my"}
      [] sub = "repo" -> {"repo", "repos", "repository"}
      [] sub = "list" -> {"list", "list all files in current directory"}
      [] sub = "push" -> {"push", "push_folder"}
      [] sub = "folder" -> {"folder", "push_folder"}
      [] sub = "codeassistent" -> {"codeassistent"}
      [] OTHER -> {sub}

\* sub in text.lower()
Contains(text, sub) == \E i \in 1..Len(text) : Lower(text[i]) \in WordsWith(sub)

\* the checks made on the input once the option check has replaced it
KeywordOfOption(user_input) ==
    LET text == IF IsDigit(Strip(user_input)) /\ Strip(user_input) \in DOMAIN last_options
                THEN last_options[Strip(user_input)] ELSE user_input
    IN  IF text = <<>> \/ Strip(text) = <<>> THEN "blank"
        ELSE IF LowerText(text) \in {<<"exit">>, <<"quit">>, <<"q">>} THEN "exit"
        ELSE IF LowerText(text) = <<"help">> THEN "help"
        ELSE IF LowerText(text) = <<"tools">> THEN "tools"
        ELSE IF LowerText(text) = <<"clear">> THEN "clear"
        ELSE "none"

\* the checks made before the option check: which of them takes the input
Keyword(user_input) ==
    IF user_input = <<>> \/ Strip(user_input) = <<>> THEN "blank"
    ELSE IF LowerText(user_input) \in {<<"exit">>, <<"quit">>, <<"q">>} THEN "exit"
    ELSE IF LowerText(user_input) = <<"help">> THEN "help"
    ELSE IF LowerText(user_input) = <<"tools">> THEN "tools"
    ELSE IF LowerText(user_input) = <<"clear">> THEN "clear"
    ELSE "none"

\* the checks made after the option check, the one for '!' left out
RouteNoDirect(user_input) ==
    IF Contains(user_input, "my") /\ Contains(user_input, "repo")
       /\ Contains(user_input, "list") THEN "repos"
    ELSE IF Contains(user_input, "push") /\ Contains(user_input, "folder") THEN "push"
    ELSE "turn"

\* the checks made after the option check: which of them takes the input
Route(user_input) ==
    IF Len(user_input) > 0 /\ user_input[1] = "!" THEN "direct"
    ELSE IF Contains(user_input, "my") /\ Contains(user_input, "repo")
            /\ Contains(user_input, "list") THEN "repos"
    ELSE IF Contains(user_input, "push") /\ Contains(user_input, "folder") THEN "push"
    ELSE "turn"

\* user_input.strip().isdigit() and user_input.strip() in self.last_options
Selects(user_input, opts) ==
    IsDigit(Strip(user_input)) /\ Strip(user_input) \in DOMAIN opts

\* f"[green]Selected:[/green] {selected_option}\n"
SelectedLine(selected_option) ==
    <<"[green]", "Selected:", "[/green]", " ">> \o selected_option \o <<NL>>

\* the option check cannot print the option it found
SelectFails(user_input, opts) ==
    Selects(user_input, opts) /\ PrintRaises(SelectedLine(opts[Strip(user_input)]))

\* os.getcwd()
Cwd == <<"/home/user/project">>

\* the folder_path passed to push_folder
FolderPath(user_input) ==
    IF Contains(user_input, "codeassistent") THEN Cwd \o <<"/", "codeAssistent">> ELSE Cwd

\* what run() did with an input: the branch that took it, the input, the
\* text after the option check and the key typed if an option was taken, the
\* self.llm.invoke calls made outside the graph, the folder paths given to
\* push_folder, the results shown, and the exception raised
Handling(kind, input, text, key, llm, pushes, shown, error) ==
    [kind |-> kind, input |-> input, text |-> text, key |-> key, llm |-> llm,
     pushes |-> pushes, shown |-> shown, error |-> error]

NothingHandled == Handling("none", <<>>, <<>>, <<>>, 0, <<>>, <<>>, <<>>)

\* the handler returned without a word of its own
Local(kind, input) == Handling(kind, input, input, <<>>, 0, <<>>, <<>>, <<>>)

\* the key an input selects, <<>> when it selects none
KeyOf(user_input, opts) == IF Selects(user_input, opts) THEN Strip(user_input) ELSE <<>>

\* except Exception as e: the error is printed and the loop goes on, unless
\* printing it raises in turn, which ends run()
ErrorLine(e) == <<"[bold red]", "Error: ">> \o e \o <<"[/bold red]">>

AfterReport(e) == IF PrintRaises(ErrorLine(e)) THEN "stopped" ELSE "input"

\* a handler that printed text and returned, or raised
CommandEnd(llm, raised, error) == [llm |-> llm, raised |-> raised, error |-> error]

Printing(text) ==
    IF PrintRaises(text) THEN CommandEnd(0, TRUE, MarkupErrorText(text))
    ELSE CommandEnd(0, FALSE, <<>>)

\* handle_direct_command(cmd), the file named and the model being as env says
handle_direct_command(cmd, env) ==
    LET parts == SplitWords(cmd)
        action == LowerText(parts[1])
        not_found == <<"[red]", "File not found: ">> \o parts[2] \o <<"[/red]">>
    IN  IF parts = <<>> THEN CommandEnd(0, FALSE, <<>>)
        ELSE IF action = <<"read">> /\ Len(parts) > 1
            THEN IF env.file = Absent THEN Printing(not_found)
                 ELSE CommandEnd(0, FALSE, <<>>)
        ELSE IF action = <<"run">> /\ Len(parts) > 1
            THEN LET r == run_code(parts[2], env.file)
                 IN  Printing(IF r.code = 0 THEN r.stdout ELSE r.stderr)
        ELSE IF action = <<"fix">> /\ Len(parts) > 1
            THEN LET r == fix_errors_loop(parts[2], env.file, env.answers)
                 IN  CommandEnd(r.asks, r.result = "raised", r.error)
        ELSE IF action = <<"edit">> /\ Len(parts) > 1
            THEN IF env.file = Absent THEN Printing(not_found)
                 ELSE CommandEnd(0, FALSE, <<>>)
        ELSE IF action \in {<<"scan">>, <<"repos">>, <<"help">>}
            THEN CommandEnd(0, FALSE, <<>>)
        ELSE Printing(<<"[yellow]", "Unknown command: ">> \o action \o <<"[/yellow]">>)

----------------------------------------------------------------------------
(* The driver and the turn controller.                                     *)

\* what checkpoints.db holds under thread_id "default_session" when the
\* process starts: nothing on a first run, else the log an earlier run left
\* (here five turns answered without tools)
RECURSIVE Turns(_)
Turns(n) ==
    IF n = 0 THEN <<>>
    ELSE Turns(n - 1) \o <<HumanMessage(<<"hello">>), AIMessage(<<"-", " ", "fix it">>, <<>>)>>

EarlierRun == Turns(5)

\* the log of an earlier run whose first turn made two tool calls
EarlierToolRun ==
    <<HumanMessage(<<"hello">>),
      AIMessage(<<>>, <<[id |-> 91, name |-> "search_web", args |-> <<"{'query': 'x'}">>],
                        [id |-> 92, name |-> "search_web", args |-> <<"{'query': 'y'}">>]>>),
      ToolMessage(<<"found">>, 91), ToolMessage(<<"found">>, 92),
      AIMessage(<<"-", " ", "fix it">>, <<>>)>> \o Turns(3)

\* self.thread_id, and the identifiers f"session_{os.urandom(4).hex()}" may give
DefaultThread == "default_session"

SessionIds == {"session_1f0e3a7c", "session_9b2d4c11"}

ThreadIds == {DefaultThread} \cup SessionIds

\* the runtime's default recursion_limit: the supersteps one ainvoke may run
RecursionLimit == 25

\* a node is due after n supersteps, and the runtime will not run it
NeverOutOfSteps(n) == FALSE

OutOfSteps(n) == n >= RecursionLimit

\* str(e) of the GraphRecursionError
RecursionErrorText ==
    <<"Recursion limit of 25 reached without hitting a stop condition.">>

AgentInit ==
    /\ pc = "input"
    /\ log \in {<<>>, EarlierRun, EarlierToolRun}
    /\ thread_id = DefaultThread
    /\ store = [id \in ThreadIds |-> <<>>]
    /\ handled = NothingHandled
    /\ selected = {}
    /\ steps = 0
    /\ turns = 0
    /\ model_input = <<>>
    /\ invoked = <<>>
    /\ turn_error = "none"
    /\ next_id = 0

FmtIdle ==
    /\ fmt_pc = "off"
    /\ fmt_in = <<>>
    /\ fmt_prior = NoOptions
    /\ fmt_out = <<>>
    /\ fmt_key = 0
    /\ fmt_sel = <<>>

NoFixInput == [path |-> <<>>, file |-> Absent, answers |-> <<>>]

NoFixOutput == FixEnd("none", <<>>, <<>>, 0, Absent, Absent)

FixIdle ==
    /\ fix_pc = "off"
    /\ fix_in = NoFixInput
    /\ fix_out = NoFixOutput

Init ==
    /\ AgentInit
    /\ log \in {<<>>, EarlierRun}
    /\ last_options = QuickStartOptions
    /\ FmtIdle
    /\ FixIdle

\* the list sent to the model, less its system message, returned as the log
LogAfterResponseSent(messages, sent, response) == Append(Tail(sent), response)

\* the messages checkpointed after model_response returned response
LogAfterResponse(messages, sent, response) == Append(messages, response)

\* run() is at the prompt and reads one more input
Budget == turns + next_id < MaxWork

Reads(user_input) ==
    /\ pc = "input"
    /\ turns' = turns + 1

\* the log kept under id once the current log is put away
SwitchLog(id) == IF id = thread_id THEN log ELSE store[id]

\* Prompt.ask raises EOFError or KeyboardInterrupt: run() says goodbye
Interrupt ==
    /\ pc = "input"
    /\ pc' = "stopped"
    /\ handled' = Local("interrupt", <<>>)
    /\ UNCHANGED <<log, thread_id, store, selected, steps, last_options, model_input,
                   invoked, turn_error, next_id, turns, sideVars>>

\* the program is started again: __init__, initialize, and run() from its top
Restart ==
    /\ pc = "stopped"
    /\ pc' = "input"
    /\ thread_id' = DefaultThread
    /\ store' = [store EXCEPT ![thread_id] = log]
    /\ log' = SwitchLog(DefaultThread)
    /\ last_options' = QuickStartOptions
    /\ selected' = {}
    /\ handled' = NothingHandled
    /\ steps' = 0
    /\ model_input' = <<>>
    /\ invoked' = <<>>
    /\ turn_error' = "none"
    /\ UNCHANGED <<next_id, turns, sideVars>>

\* run(): an empty or blank input is skipped
ReadSkip(user_input) ==
    /\ Reads(user_input)
    /\ Keyword(user_input) = "blank"
    /\ handled' = Local("blank", user_input)
    /\ UNCHANGED <<pc, log, thread_id, store, selected, steps, last_options, model_input,
                   invoked, turn_error, next_id, sideVars>>

\* run(): exit, quit or q
ReadExit(user_input) ==
    /\ Reads(user_input)
    /\ Keyword(user_input) = "exit"
    /\ pc' = "stopped"
    /\ handled' = Local("exit", user_input)
    /\ UNCHANGED <<log, thread_id, store, selected, steps, last_options, model_input,
                   invoked, turn_error, next_id, sideVars>>

\* run(): help or tools
ReadDisplay(user_input) ==
    /\ Reads(user_input)
    /\ Keyword(user_input) \in {"help", "tools"}
    /\ handled' = Local(Keyword(user_input), user_input)
    /\ UNCHANGED <<pc, log, thread_id, store, selected, steps, last_options, model_input,
                   invoked, turn_error, next_id, sideVars>>

\* run(): clear, os.urandom giving the identifier id
ReadClear(user_input, id) ==
    /\ Reads(user_input)
    /\ Keyword(user_input) = "clear"
    /\ thread_id' = id
    /\ store' = [store EXCEPT ![thread_id] = log]
    /\ log' = SwitchLog(id)
    /\ handled' = Local("clear", user_input)
    /\ UNCHANGED <<pc, selected, steps, last_options, model_input, invoked, turn_error,
                   next_id, sideVars>>

\* run(): a number that is a key, whose option cannot be printed
ReadSelectFails(user_input) ==
    /\ Reads(user_input)
    /\ Keyword(user_input) = "none"
    /\ SelectFails(user_input, last_options)
    /\ LET e == MarkupErrorText(SelectedLine(last_options[Strip(user_input)]))
       IN  /\ handled' = Handling("select", user_input, user_input, <<>>, 0, <<>>, <<>>, e)
           /\ pc' = AfterReport(e)
    /\ turn_error' = "command"
    /\ UNCHANGED <<log, thread_id, store, selected, steps, last_options, model_input,
                   invoked, next_id, sideVars>>

\* the input passes the checks and the option check; the key it typed is noted
Passes(user_input) ==
    /\ Reads(user_input)
    /\ Keyword(user_input) = "none"
    /\ ~SelectFails(user_input, last_options)
    /\ selected' = IF Selects(user_input, last_options)
                   THEN selected \cup {Strip(user_input)} ELSE selected

\* run(): an input that starts with '!'
ReadDirect(user_input) ==
    /\ Passes(user_input)
    /\ LET text == ResolveOption(user_input, last_options)
       IN  /\ Route(text) = "direct"
           /\ \E env \in DirectEnvs :
                LET r == handle_direct_command(Tail(text), env)
                IN  /\ handled' = Handling("direct", user_input, text,
                                           KeyOf(user_input, last_options), r.llm,
                                           <<>>, <<>>, r.error)
                    /\ pc' = IF r.raised THEN AfterReport(r.error) ELSE "input"
                    /\ turn_error' = IF r.raised THEN "command" ELSE "none"
    /\ UNCHANGED <<log, thread_id, store, steps, last_options, model_input, invoked,
                   next_id, sideVars>>

\* run(): 'my', 'repo' and 'list' in the input: list_my_repos.invoke({})
ReadRepos(user_input) ==
    /\ Passes(user_input)
    /\ LET text == ResolveOption(user_input, last_options)
       IN  /\ Route(text) = "repos"
           /\ handled' = Handling("repos", user_input, text,
                                  KeyOf(user_input, last_options), 0, <<>>, <<>>, <<>>)
    /\ turn_error' = "none"
    /\ UNCHANGED <<pc, log, thread_id, store, steps, last_options, model_input, invoked,
                   next_id, sideVars>>

\* run(): 'push' and 'folder' in the input: push_folder.invoke, the tool
\* doing outcome
ReadPush(user_input, outcome) ==
    /\ Passes(user_input)
    /\ LET text == ResolveOption(user_input, last_options)
           key == KeyOf(user_input, last_options)
           folder_path == FolderPath(text)
       IN  /\ Route(text) = "push"
           /\ IF outcome.kind = "raises"
              THEN /\ handled' = Handling("push", user_input, text, key, 0,
                                          <<folder_path>>, <<>>, outcome.text)
                   /\ pc' = AfterReport(outcome.text)
                   /\ turn_error' = "command"
              ELSE IF PrintRaises(outcome.text)
              THEN /\ handled' = Handling("push", user_input, text, key, 0,
                                          <<folder_path>>, <<>>,
                                          MarkupErrorText(outcome.text))
                   /\ pc' = AfterReport(MarkupErrorText(outcome.text))
                   /\ turn_error' = "command"
              ELSE /\ handled' = Handling("push", user_input, text, key, 0,
                                          <<folder_path>>, <<outcome.text>>, <<>>)
                   /\ pc' = "input"
                   /\ turn_error' = "none"
    /\ UNCHANGED <<log, thread_id, store, steps, last_options, model_input, invoked,
                   next_id, sideVars>>

\* run(): any other input is wrapped as a user message and given to the graph
Submit(user_input) ==
    /\ Passes(user_input)
    /\ LET text == ResolveOption(user_input, last_options)
       IN  /\ Route(text) = "turn"
           /\ log' = Append(log, HumanMessage(text))
           /\ handled' = Handling("turn", user_input, text,
                                  KeyOf(user_input, last_options), 0, <<>>, <<>>, <<>>)
    /\ pc' = "model_response"
    /\ steps' = 0
    /\ turn_error' = "none"
    /\ UNCHANGED <<thread_id, store, last_options, model_input, invoked, next_id, sideVars>>

\* run(): an input that reaches the turn controller
ReadInput(text) == Budget /\ Submit(text)

\* model_response returns, then check_tool_use routes, unless the step limit
\* is reached with tool_use due
ModelResponse(response) ==
    /\ pc = "model_response"
    /\ model_input' = BuildInput(log)
    /\ last_options' = IF response.content # <<>>
                       THEN FormatWithNumbers(response.content, last_options).last_options
                       ELSE last_options
    /\ selected' = IF response.content # <<>> THEN {} ELSE selected
    /\ log' = LogAfterResponse(log, BuildInput(log), response)
    /\ next_id' = next_id + Len(response.tool_calls)
    /\ steps' = steps + 1
    /\ IF check_tool_use(log') = "tool_use" /\ OutOfSteps(steps')
       THEN /\ pc' = AfterReport(RecursionErrorText)
            /\ turn_error' = "recursion"
       ELSE /\ pc' = check_tool_use(log')
            /\ turn_error' = turn_error
    /\ UNCHANGED <<thread_id, store, handled, invoked, turns, sideVars>>

\* self.llm_with_tools.invoke raises e: run() reports the error
ModelRaises(e) ==
    /\ pc = "model_response"
    /\ model_input' = BuildInput(log)
    /\ pc' = AfterReport(e)
    /\ turn_error' = "model"
    /\ UNCHANGED <<log, thread_id, store, handled, selected, steps, last_options, invoked,
                   next_id, turns, sideVars>>

\* tool_use, call i of the last message doing oc[i] for some oc over outcomes
ToolUseDoing(outcomes) ==
    /\ pc = "tool_use"
    /\ \E oc \in [1..Len(log[Len(log)].tool_calls) -> outcomes] :
        LET r == RunCalls(log[Len(log)].tool_calls, oc, 1, <<>>, <<>>)
        IN  /\ invoked' = r.invoked
            /\ IF r.raised
               THEN /\ pc' = AfterReport(r.error)
                    /\ turn_error' = "tool_use"
                    /\ log' = log
                    /\ steps' = steps
               ELSE /\ pc' = IF OutOfSteps(steps + 1) THEN AfterReport(RecursionErrorText)
                             ELSE "model_response"
                    /\ turn_error' = IF OutOfSteps(steps + 1) THEN "recursion" ELSE turn_error
                    /\ log' = log \o r.msgs
                    /\ steps' = steps + 1
    /\ UNCHANGED <<thread_id, store, handled, selected, last_options, model_input, next_id,
                   turns, sideVars>>

ToolUse == ToolUseDoing(Outcomes)

\* what a tool may do when few cases are wanted: return, or raise with a
\* closing tag in the message
LongOutcomes == {[kind |-> "returns", text |-> <<"found">>],
                 [kind |-> "raises", text |-> <<"bad tag", " ", "[/b]">>]}

\* the turn controller under plain requests
Next ==
    \/ \E text \in UserInputs : ReadInput(text)
    \/ \E response \in Responses(next_id, MaxWork - (turns + next_id)) : ModelResponse(response)
    \/ \E e \in ModelErrors : ModelRaises(e)
    \/ ToolUse
    \/ Restart

Spec == Init /\ [][Next]_vars

----------------------------------------------------------------------------
(* The driver under every kind of input, the model answering with bullets  *)
(* or with one tool call.                                                  *)

DriverInit ==
    /\ AgentInit
    /\ log = <<>>
    /\ last_options = QuickStartOptions
    /\ FmtIdle
    /\ FixIdle

\* run() reads one more input
DriverBudget == turns + next_id < MaxInputs

DriverNext ==
    \/ Interrupt
    \/ Restart
    \/ \E text \in DriverInputs :
        /\ DriverBudget
        /\ \/ ReadSkip(text)
           \/ ReadExit(text)
           \/ ReadDisplay(text)
           \/ \E id \in SessionIds : ReadClear(text, id)
           \/ ReadSelectFails(text)
           \/ ReadDirect(text)
           \/ ReadRepos(text)
           \/ \E outcome \in Outcomes : ReadPush(text, outcome)
           \/ Submit(text)
    \/ \E response \in DriverResponses(next_id, MaxInputs - (turns + next_id)) :
            ModelResponse(response)
    \/ \E e \in ModelErrors : ModelRaises(e)
    \/ ToolUseDoing(LongOutcomes)

SpecDriver == DriverInit /\ [][DriverNext]_vars

----------------------------------------------------------------------------
(* The turn controller followed to its step limit: the model asks for one  *)
(* tool at a time, as long as it likes.                                    *)

LongInputs == {<<"hello">>}

LongResponses(nid) ==
    {AIMessage(<<"-", " ", "fix it">>, <<>>),
     AIMessage(<<>>, <<[id |-> nid + 1, name |-> "search_web", args |-> <<"{'query': 'x'}">>]>>)}

LongInit ==
    /\ AgentInit
    /\ log = <<>>
    /\ last_options = QuickStartOptions
    /\ FmtIdle
    /\ FixIdle

\* run() reads an input for the turn controller
LongInput(text) == turns < MaxLongTurns /\ Submit(text)

\* a model or tool invocation of the turn in progress returns or raises
LongStep ==
    \/ \E response \in LongResponses(next_id) : ModelResponse(response)
    \/ \E e \in ModelErrors : ModelRaises(e)
    \/ ToolUseDoing(LongOutcomes)

LongNext ==
    \/ \E text \in LongInputs : LongInput(text)
    \/ LongStep

\* every invocation returns: a step of the turn in progress is taken
SpecLong == LongInit /\ [][LongNext]_vars /\ WF_vars(LongStep)

\* the same turns on a thread whose checkpoint holds an earlier run with tools
WindowInit ==
    /\ AgentInit
    /\ log = EarlierToolRun
    /\ last_options = QuickStartOptions
    /\ FmtIdle
    /\ FixIdle

SpecWindow == WindowInit /\ [][LongNext]_vars

----------------------------------------------------------------------------
(* The formatter on its own: every text of up to MaxLines lines is given   *)
(* to _format_with_numbers, then either formatted again or answered with   *)
(* a bare integer.                                                         *)

FmtLineSet ==
    { <<>>,
      <<"a">>,
      <<"-", " ", "a">>,
      <<" ", "*", "\t", "b", " ", "c">>,
      <<"U+00A2", " ", " ">>,
      <<"-", " ">>,
      <<"-", "a">>,
      <<"*", "*", "1", ".", "*", "*", " ", "a">> }

FmtTexts == {Join(ls) : ls \in UNION {[1..n -> FmtLineSet] : n \in 0..MaxLines}}

\* maps self.last_options may hold before a call: the quick-start options,
\* none, or those of an earlier answer
FmtPriors ==
    {QuickStartOptions, NoOptions,
     FormatWithNumbers(<<"-", " ", "old">>, NoOptions).last_options}

FmtInit ==
    /\ AgentInit
    /\ log = <<>>
    /\ FixIdle
    /\ fmt_pc = "ready"
    /\ fmt_in \in FmtTexts
    /\ fmt_prior \in FmtPriors
    /\ last_options = fmt_prior
    /\ fmt_out = <<>>
    /\ fmt_key = 0
    /\ fmt_sel = <<>>

\* formatted_content = self._format_with_numbers(response.content)
FmtFormat ==
    /\ fmt_pc = "ready"
    /\ fmt_out' = FormatWithNumbers(fmt_in, last_options).result
    /\ last_options' = FormatWithNumbers(fmt_in, last_options).last_options
    /\ fmt_pc' = "formatted"
    /\ UNCHANGED <<agentVars, fixVars, fmt_in, fmt_prior, fmt_key, fmt_sel>>

\* the formatter applied to its own output
FmtAgain ==
    /\ fmt_pc = "formatted"
    /\ fmt_out' = FormatWithNumbers(fmt_out, last_options).result
    /\ last_options' = FormatWithNumbers(fmt_out, last_options).last_options
    /\ fmt_pc' = "again"
    /\ UNCHANGED <<agentVars, fixVars, fmt_in, fmt_prior, fmt_key, fmt_sel>>

\* run(): the next input is the bare integer k
FmtSelect(k) ==
    /\ fmt_pc = "formatted"
    /\ fmt_key' = k
    /\ fmt_sel' = ResolveOption(Str(k), last_options)
    /\ fmt_pc' = "selected"
    /\ UNCHANGED <<agentVars, fixVars, last_options, fmt_in, fmt_prior, fmt_out>>

FmtNext ==
    \/ FmtFormat
    \/ FmtAgain
    \/ \E k \in 1..MaxKey : FmtSelect(k)

SpecFmt == FmtInit /\ [][FmtNext]_vars

----------------------------------------------------------------------------
(* The auto-fix loop on its own: fix_errors_loop is run on every path,     *)
(* file and sequence of model answers of the vocabulary.                   *)

FixInputs == [path : FixPaths, file : FixFiles, answers : [1..max_retries -> FixAnswers]]

FixInit ==
    /\ AgentInit
    /\ log = <<>>
    /\ last_options = QuickStartOptions
    /\ FmtIdle
    /\ fix_pc = "ready"
    /\ fix_in \in FixInputs
    /\ fix_out = NoFixOutput

\* await self.fix_errors_loop(parts[1])
FixRun ==
    /\ fix_pc = "ready"
    /\ fix_out' = fix_errors_loop(fix_in.path, fix_in.file, fix_in.answers)
    /\ fix_pc' = "done"
    /\ UNCHANGED <<agentVars, last_options, fmtVars, fix_in>>

FixNext == FixRun

SpecFix == FixInit /\ [][FixNext]_vars

----------------------------------------------------------------------------
(* Vocabulary of the claims.                                               *)

LastOf(seq) == seq[Len(seq)]

\* the tool calls EXECUTE_TOOLS is about to run
PendingCalls == LastOf(log).tool_calls

\* number of tool-result messages of messages that answer identifier id
Answers(messages, id) ==
    Cardinality({j \in 1..Len(messages) :
                    messages[j].type = "tool" /\ messages[j].tool_call_id = id})

\* the last n elements of seq
LastN(seq, n) == SubSeq(seq, Len(seq) - n + 1, Len(seq))

Min(a, b) == IF a < b THEN a ELSE b

\* a step of the run that is one whole GENERATE / EXECUTE_TOOLS
Generating == pc = "model_response"
Executing == pc = "tool_use"

----------------------------------------------------------------------------
\* C1: every EXECUTE_TOOLS step appends exactly one tool-result message per
\* pending tool call, in the order of the calls, the i-th result carrying the
\* identifier of the i-th call, whatever the tools do.
C1_OneResultPerCall ==
    [][Executing =>
        /\ Len(log') = Len(log) + Len(PendingCalls)
        /\ SubSeq(log', 1, Len(log)) = log
        /\ \A i \in 1..Len(PendingCalls) :
            /\ log'[Len(log) + i].type = "tool"
            /\ log'[Len(log) + i].tool_call_id = PendingCalls[i].id]_vars

\* C2: whenever GENERATE is about to invoke the model, every tool-call
\* identifier of an assistant message of the log is answered by exactly one
\* tool-result message of the log.
C2_CallsAnsweredAtGenerate ==
    Generating =>
        \A j \in 1..Len(log) : \A i \in 1..Len(log[j].tool_calls) :
            Answers(log, log[j].tool_calls[i].id) = 1

\* C3: a pending call to an unregistered name gets the tool-result message
\* "Tool <name> not found" with its identifier, no tool is invoked for it and
\* no exception leaves the step, whatever the other calls of the message do.
C3_UnregisteredAnswered ==
    [][Executing =>
        \A i \in 1..Len(PendingCalls) :
            FindTool(PendingCalls[i].name) = 0 =>
                /\ turn_error' # "tool_use"
                /\ Len(log') >= Len(log) + i
                /\ log'[Len(log) + i] =
                      ToolMessage(<<"Tool ", PendingCalls[i].name, " not found">>,
                                  PendingCalls[i].id)
                /\ \A k \in 1..Len(invoked') : invoked'[k].id # PendingCalls[i].id]_vars

\* C4: when a registered tool raises during EXECUTE_TOOLS the exception does
\* not leave the step: the call is answered "Tool error: <message>" under its
\* own identifier, the tool was run once, and the controller goes on to
\* GENERATE.
C4_ToolErrorsContained ==
    [][Executing =>
        \A k \in 1..Len(invoked') :
            invoked'[k].outcome.kind = "raises" =>
                /\ pc' = "model_response"
                /\ turn_error' # "tool_use"
                /\ \E i \in 1..Len(PendingCalls) :
                    /\ PendingCalls[i].id = invoked'[k].id
                    /\ Len(log') >= Len(log) + i
                    /\ log'[Len(log) + i] =
                          ToolMessage(<<"Tool error: ">> \o invoked'[k].outcome.text,
                                      invoked'[k].id)
                /\ \A l \in 1..Len(invoked') : invoked'[l].id = invoked'[k].id => l = k]_vars

\* C5: a turn starts in GENERATE; after a GENERATE that appended an assistant
\* message EXECUTE_TOOLS follows exactly when that message carries tool calls,
\* and otherwise the turn ends; EXECUTE_TOOLS is always followed by GENERATE
\* and never starts without pending calls.
C5_Routing ==
    [][/\ (pc = "input" /\ pc' # "input") => pc' = "model_response"
       /\ (Generating /\ log' # log) =>
            /\ pc' = (IF Len(LastOf(log').tool_calls) > 0 THEN "tool_use" ELSE "input")
       /\ Executing => pc' = "model_response"
       /\ pc' = "tool_use" => Len(LastOf(log').tool_calls) > 0]_vars

\* C6 as stated: the list passed to the model is the system message followed
\* by exactly the last min(n, 10) messages of the log.
C6_InputIsSystemPlusWindow ==
    [][Generating =>
        model_input' = <<system_message>> \o LastN(log, Min(Len(log), 10))]_vars

\* the last message as the keyword check leaves it
DirectedLast(msg) ==
    IF \E i \in 1..Len(msg.content) :
          msg.content[i] \in {"Push", "push", "upload", "GitHub", "github", "repo",
                              "repository", "push_folder"}
    THEN [type |-> "human",
          content |-> msg.content \o
              <<NL, NL, "[SYSTEM: You MUST call the appropriate tool NOW. Do not respond with text.]">>,
          tool_calls |-> <<>>, tool_call_id |-> 0]
    ELSE msg

\* C6 (amended): the list passed to the model is the system message, at
\* position 0 and nowhere else, followed by the last min(n, 10) messages of
\* the log in their order, the last of them replaced by a user message with
\* its content and the tool-use directive when its content has a keyword.
C6_InputIsSystemPlusWindowDirected ==
    [][Generating =>
        LET m == Min(Len(log), 10)
            window == LastN(log, m)
        IN  /\ Len(model_input') = m + 1
            /\ model_input'[1] = system_message
            /\ \A i \in 2..(m + 1) : model_input'[i].type # "system"
            /\ \A i \in 1..(m - 1) : model_input'[i + 1] = window[i]
            /\ model_input'[m + 1] = DirectedLast(window[m])]_vars

\* a log longer than the window was cut, and its last message was directed
C6_Witness ==
    /\ Len(log) > 11
    /\ Len(model_input) = 11
    /\ model_input[2] = log[Len(log) - 10]
    /\ LastOf(model_input).content = <<"Push", " ", "it">> \o Directive
    /\ LastOf(log).type = "ai"

\* C7: when the last message of the model input is a tool-result message it
\* reaches the model unchanged, whatever its content.
C7_ToolResultUnchanged ==
    [][(Generating /\ LastOf(log).type = "tool") =>
        LastOf(model_input') = LastOf(log)]_vars

\* C8: a GENERATE step leaves the log as it is when the model raises, and else
\* appends one assistant message and changes nothing else; no message of the
\* log is a system message.
C8_GenerateOnlyAppends ==
    /\ [][Generating =>
            \/ log' = log /\ turn_error' = "model"
            \/ /\ Len(log') = Len(log) + 1
               /\ SubSeq(log', 1, Len(log)) = log
               /\ LastOf(log').type = "ai"]_vars
    /\ [](\A i \in 1..Len(log) : log[i].type # "system")

\* the model was given a cut and directed list, and the log kept every message
C8_Witness ==
    /\ pc = "input"
    /\ Len(log) > 11
    /\ LastOf(log).type = "ai"
    /\ Len(model_input) = 11
    /\ LastOf(model_input) # log[Len(log) - 1]
    /\ log[Len(log) - 1] = HumanMessage(<<"Push", " ", "it">>)
    /\ SubSeq(log, 1, 10) = EarlierRun

----------------------------------------------------------------------------
(* Claims about the formatter.                                             *)

IsBullet(line) == BulletMatch(line).matched

\* number of bullet lines among the first i lines
Rank(lines, i) == Cardinality({j \in 1..i : IsBullet(lines[j])})

FmtLinesIn == Split(fmt_in)

FmtBullets == Rank(FmtLinesIn, Len(FmtLinesIn))

\* the content of the k-th bullet line of the text formatted
FmtContent(k) ==
    LET i == CHOOSE j \in 1..Len(FmtLinesIn) :
                IsBullet(FmtLinesIn[j]) /\ Rank(FmtLinesIn, j) = k
    IN  BulletMatch(FmtLinesIn[i]).content

\* C9: the bullet lines come out numbered 1, 2, 3, ... in order, the other
\* lines unchanged; the options map has exactly the keys "1".."m" for m bullet
\* lines; and the bare integer k typed next is replaced by the content of the
\* k-th bullet line.
C9_NumberedRoundTrip ==
    fmt_pc \in {"formatted", "selected"} =>
        LET out == Split(fmt_out)
        IN  /\ Len(out) >= Len(FmtLinesIn)
            /\ \A i \in 1..Len(FmtLinesIn) :
                IF IsBullet(FmtLinesIn[i])
                THEN out[i] = BulletMatch(FmtLinesIn[i]).indent \o <<"*", "*">>
                                \o Str(Rank(FmtLinesIn, i)) \o <<".", "*", "*", " ">>
                                \o BulletMatch(FmtLinesIn[i]).content
                ELSE out[i] = FmtLinesIn[i]
            /\ DOMAIN last_options = {Str(k) : k \in 1..FmtBullets}
            /\ \A k \in 1..FmtBullets : last_options[Str(k)] = FmtContent(k)
            /\ (fmt_pc = "selected" /\ fmt_key <= FmtBullets) =>
                    fmt_sel = FmtContent(fmt_key)

\* the second of two bullets, with another line between them, was selected
C9_Witness ==
    /\ fmt_pc = "selected"
    /\ FmtBullets = 2
    /\ Len(FmtLinesIn) = 3
    /\ FmtLinesIn[2] = <<"-", "a">>
    /\ FmtContent(1) = <<"b", " ", "c">>
    /\ fmt_key = 2
    /\ fmt_sel = <<" ">>

\* C10: a text without bullet lines is returned unchanged, by the first call
\* and by a second call on the result, and the options map is empty
\* afterwards whatever it held before.
C10_NoBulletsFixedPoint ==
    (fmt_pc \in {"formatted", "again"} /\ FmtBullets = 0) =>
        /\ fmt_out = fmt_in
        /\ last_options = NoOptions

\* a text of several lines, none a bullet, was formatted twice, the map
\* holding options before
C10_Witness ==
    /\ fmt_pc = "again"
    /\ FmtBullets = 0
    /\ Len(FmtLinesIn) = 3
    /\ FmtLinesIn[2] = <<"-", "a">>
    /\ fmt_prior = QuickStartOptions
    /\ fmt_out = fmt_in

----------------------------------------------------------------------------
(* Claims about the driver.                                                *)

\* a step in which run() read an input
ReadStep == turns' # turns

\* C11: an answer with bullets replaces the whole options map, and a map is
\* used at most once: a number typed again is not replaced by its option
\* again unless an answer has rebuilt the map since.
C11_OptionsConsumedOnce ==
    [][/\ (Generating /\ Len(log') > Len(log) /\ LastOf(log').content = Bulleted) =>
            /\ DOMAIN last_options' = {<<"1">>, <<"2">>, <<"3">>, <<"4">>}
            /\ last_options'[<<"1">>] = <<"!", "scan">>
            /\ last_options'[<<"4">>] = <<"see", " ", "[/url]">>
       /\ (ReadStep /\ handled'.key # <<>>) => handled'.key \notin selected]_vars

\* C12: 'clear' moves the driver to a thread identifier that differs from
\* the one in use and holds no messages, so that the next turn shows the
\* model the new user message only; and no step, 'clear' and the turns after
\* it included, changes the messages kept under an identifier that is not
\* the one in use after the step.
C12_ClearStartsFreshThread ==
    [][/\ (ReadStep /\ handled'.kind = "clear") =>
            /\ thread_id' # thread_id
            /\ log' = <<>>
       /\ \A id \in {DefaultThread, "session_1f0e3a7c", "session_9b2d4c11"} :
            id # thread_id' =>
                (IF id = thread_id' THEN log' ELSE store'[id])
                    = (IF id = thread_id THEN log ELSE store[id])]_vars

\* C13: run() stops only at the prompt, on an exit keyword or on an
\* interrupt or end of input; an error raised while an input is processed is
\* reported and the next input is read.
C13_ErrorsNeverEndSession ==
    [][(pc # "stopped" /\ pc' = "stopped") =>
            /\ pc = "input"
            /\ handled'.kind \in {"exit", "interrupt"}
            /\ handled'.error = <<>>]_vars

\* C14: the graph never runs more supersteps for one input than its step
\* limit allows, an input is read only when no turn is in progress, and a
\* turn in progress always comes to an end, the invocations returning.
C14_TurnsEnd ==
    /\ [](steps <= 25)
    /\ [][ReadStep => (pc = "input" /\ pc' \in {"model_response", "input", "stopped"})]_vars
    /\ [](pc \in {"model_response", "tool_use"} => <>(pc \in {"input", "stopped"}))

\* a turn asked for a tool at every answer and was cut at the step limit
C14_Witness ==
    /\ pc = "input"
    /\ turn_error = "recursion"
    /\ steps = 25
    /\ Len(log) = 26
    /\ Len(LastOf(log).tool_calls) = 1
    /\ turns = 1

\* the input, as typed, starts with the direct-command marker
Marked(input) == Len(input) > 0 /\ input[1] = "!"

\* C15 as stated: an input that starts with '!' is handled without any
\* invocation of the model, GENERATE is not entered and the log is unchanged.
C15_DirectWithoutModel ==
    [][(ReadStep /\ Marked(handled'.input)) =>
            /\ handled'.kind = "direct"
            /\ handled'.llm = 0
            /\ pc' # "model_response"
            /\ model_input' = model_input
            /\ log' = log]_vars

\* C15 (amended): an input that starts with '!' is handled as a direct
\* command, GENERATE is not entered, the model is not invoked with the tools
\* and the log is unchanged; the model is invoked, without tools and at most
\* three times, only by '!fix <file>'.
C15_DirectWithoutGenerate ==
    [][(ReadStep /\ Marked(handled'.input)) =>
            /\ handled'.kind = "direct"
            /\ pc' \in {"input", "stopped"}
            /\ model_input' = model_input
            /\ log' = log
            /\ steps' = steps
            /\ handled'.llm <= 3
            /\ handled'.llm > 0 =>
                    /\ Len(handled'.input) = 4
                    /\ SubSeq(handled'.input, 1, 3) = <<"!", "fix", " ">>]_vars

\* '!fix f.py' asked the model three times and the driver reads on
C15_Witness ==
    /\ pc = "input"
    /\ handled.kind = "direct"
    /\ handled.input = <<"!", "fix", " ", "f.py">>
    /\ handled.llm = 3
    /\ handled.error = <<>>
    /\ log # <<>>

\* the input, as typed, reaches the push pattern and matches it
PushPattern(input) ==
    /\ \E i \in 1..Len(input) : input[i] \in {"push", "Push"}
    /\ \E i \in 1..Len(input) : input[i] = "folder"
    /\ ~Marked(input)
    /\ ~(/\ \E i \in 1..Len(input) : input[i] = "my"
         /\ \E i \in 1..Len(input) : input[i] \in {"repo", "repos"}
         /\ \E i \in 1..Len(input) : input[i] = "list")

\* C16: an input with 'push' and 'folder' that reaches the pattern step has
\* the push tool invoked once, on the working directory unless the input
\* names the codeAssistent folder, its result shown, GENERATE not entered and
\* the log unchanged.
C16_PushShortcut ==
    [][(ReadStep /\ PushPattern(handled'.input)) =>
            /\ Len(handled'.pushes) = 1
            /\ (\A i \in 1..Len(handled'.input) : handled'.input[i] # "codeAssistent") =>
                    handled'.pushes[1] = <<"/home/user/project">>
            /\ Len(handled'.shown) = 1
            /\ pc' # "model_response"
            /\ model_input' = model_input
            /\ log' = log]_vars

\* C17: fix_errors_loop runs the file at most three times and asks the model
\* at most three times; when a run exits with code 0 it is the last run, the
\* file is left as that run found it and the loop returns True; and the loop
\* returns False only after three runs that failed.
C17_FixLoopBounded ==
    fix_pc = "done" =>
        /\ Len(fix_out.runs) <= 3
        /\ fix_out.asks <= 3
        /\ \A i \in 1..Len(fix_out.runs) :
            fix_out.runs[i].code = 0 =>
                /\ i = Len(fix_out.runs)
                /\ fix_out.file = fix_out.runs[i].content
                /\ fix_out.result = "True"
        /\ fix_out.result = "True" =>
                (Len(fix_out.runs) > 0 /\ LastOf(fix_out.runs).code = 0)
        /\ fix_out.result = "False" =>
                /\ Len(fix_out.runs) = 3
                /\ \A i \in 1..3 : fix_out.runs[i].code # 0

\* the first entry of registry under name: 0 when there is none
Earliest(registry, name) ==
    IF \E i \in 1..Len(registry) : registry[i].name = name
    THEN CHOOSE i \in 1..Len(registry) :
            /\ registry[i].name = name
            /\ \A j \in 1..(i - 1) : registry[j].name # name
    ELSE 0

\* every call that ran a tool ran it once, awaited exactly when the first
\* entry of registry under its name comes from the server
RunsEarliest(registry) ==
    Executing =>
        /\ \A k \in 1..Len(invoked') :
            /\ Earliest(registry, invoked'[k].name) # 0
            /\ invoked'[k].async = registry[Earliest(registry, invoked'[k].name)].mcp
            /\ \A l \in 1..Len(invoked') : invoked'[l].id = invoked'[k].id => l = k
        /\ \A i \in 1..Len(PendingCalls) :
            (Earliest(registry, PendingCalls[i].name) = 0) =>
                \A k \in 1..Len(invoked') : invoked'[k].id # PendingCalls[i].id

\* C18 as stated: the tool invoked for a name is the first entry under that
\* name of the registry local tools, direct-API tools, protocol-sourced
\* tools, web tools, and it is awaited exactly when that entry is
\* protocol-sourced.
C18_LookupOrderClaimed ==
    [][RunsEarliest(<<[name |-> "read_file", mcp |-> FALSE],
                   [name |-> "push_folder", mcp |-> FALSE],
                   [name |-> "quick_push_file", mcp |-> FALSE],
                   [name |-> "list_my_repos", mcp |-> FALSE],
                   [name |-> "get_repo_info", mcp |-> FALSE],
                   [name |-> "create_issue", mcp |-> TRUE],
                   [name |-> "search_web", mcp |-> TRUE],
                   [name |-> "search_web", mcp |-> FALSE],
                   [name |-> "read_webpage", mcp |-> FALSE],
                   [name |-> "search_langchain_docs", mcp |-> FALSE],
                   [name |-> "search_langgraph_docs", mcp |-> FALSE],
                   [name |-> "search_mcp_docs", mcp |-> FALSE],
                   [name |-> "search_python_docs", mcp |-> FALSE],
                   [name |-> "search_stackoverflow", mcp |-> FALSE],
                   [name |-> "get_library_info", mcp |-> FALSE]>>)]_vars

\* C18 (amended): the same, the registry being local tools, direct-API
\* tools, web tools and, last, protocol-sourced tools.
C18_LookupOrder ==
    [][RunsEarliest(<<[name |-> "read_file", mcp |-> FALSE],
                   [name |-> "push_folder", mcp |-> FALSE],
                   [name |-> "quick_push_file", mcp |-> FALSE],
                   [name |-> "list_my_repos", mcp |-> FALSE],
                   [name |-> "get_repo_info", mcp |-> FALSE],
                   [name |-> "search_web", mcp |-> FALSE],
                   [name |-> "read_webpage", mcp |-> FALSE],
                   [name |-> "search_langchain_docs", mcp |-> FALSE],
                   [name |-> "search_langgraph_docs", mcp |-> FALSE],
                   [name |-> "search_mcp_docs", mcp |-> FALSE],
                   [name |-> "search_python_docs", mcp |-> FALSE],
                   [name |-> "search_stackoverflow", mcp |-> FALSE],
                   [name |-> "get_library_info", mcp |-> FALSE],
                   [name |-> "create_issue", mcp |-> TRUE],
                   [name |-> "search_web", mcp |-> TRUE]>>)]_vars

\* a name registered by the web tools and by the server was called, the web
\* tool ran, not awaited, and its result is in the log
C18_Witness ==
    /\ pc = "model_response"
    /\ Len(invoked) = 1
    /\ invoked[1].name = "search_web"
    /\ ~invoked[1].async
    /\ LastOf(log) = ToolMessage(<<"found">>, invoked[1].id)

\* C19: in a model input cut from a log longer than the window, every
\* tool-result message comes after the assistant message that made its call.
C19_WindowKeepsPairs ==
    Len(model_input) = 11 =>
        \A i \in 1..Len(model_input) :
            model_input[i].type = "tool" =>
                \E j \in 1..(i - 1) :
                    /\ model_input[j].type = "ai"
                    /\ \E c \in 1..Len(model_input[j].tool_calls) :
                        model_input[j].tool_calls[c].id = model_input[i].tool_call_id

\* the words a local check of run() takes
LocalWords == {<<"exit">>, <<"quit">>, <<"q">>, <<"help">>, <<"tools">>, <<"clear">>}

\* text matches one of the two shortcut patterns
Shortcut(text) ==
    \/ /\ \E i \in 1..Len(text) : text[i] = "push"
       /\ \E i \in 1..Len(text) : text[i] = "folder"
    \/ /\ \E i \in 1..Len(text) : text[i] = "my"
       /\ \E i \in 1..Len(text) : text[i] \in {"repo", "repos"}
       /\ \E i \in 1..Len(text) : text[i] = "list"

\* the characters of input that are not blanks
Bare(input) == SelectSeq(input, LAMBDA ch : ch \notin {" ", "\t", "\n"})

\* C20: a number typed is replaced by its option after the exit, help,
\* tools and clear checks and before the direct-command and shortcut checks:
\* an option that starts with '!' runs as a direct command, one that matches
\* a shortcut is handled without the model, one that is a keyword of the
\* local checks goes to the turn controller as a user message, and a number
\* that is no key goes to the turn controller as typed.
C20_OptionCheckOrder ==
    [][(ReadStep /\ Bare(handled'.input) # <<>>
                /\ \A i \in 1..Len(Bare(handled'.input)) :
                        Bare(handled'.input)[i] \in
                            {"0", "1", "2", "3", "4", "5", "6", "7", "8", "9"}) =>
        IF Bare(handled'.input) \in DOMAIN last_options
        THEN LET option == last_options[Bare(handled'.input)]
             IN  /\ option[1] = "!" =>
                        /\ handled'.kind = "direct"
                        /\ handled'.text = option
                        /\ log' = log
                        /\ pc' # "model_response"
                 /\ (option[1] # "!" /\ Shortcut(option)) =>
                        /\ handled'.kind \in {"push", "repos"}
                        /\ handled'.text = option
                        /\ log' = log
                        /\ pc' # "model_response"
                 /\ option \in LocalWords =>
                        /\ handled'.kind = "turn"
                        /\ log' = Append(log, HumanMessage(option))
                        /\ pc' = "model_response"
                        /\ thread_id' = thread_id
        ELSE /\ handled'.kind = "turn"
             /\ log' = Append(log, HumanMessage(handled'.input))
             /\ pc' = "model_response"]_vars

\* the option 'exit' was chosen by its number and is the user message of a
\* turn in progress
C20_Witness ==
    /\ pc = "model_response"
    /\ handled.kind = "turn"
    /\ handled.input = <<"2">>
    /\ handled.text = <<"exit">>
    /\ LastOf(log) = HumanMessage(<<"exit">>)

----------------------------------------------------------------------------
(* Claims about the content the auto-fix loop leaves behind.               *)

\* C21: when fix_errors_loop returns False, the content left in the file is
\* a content the loop ran and saw exit with a code other than 0, and the
\* backup holds the content the file had just before the last fix was
\* written, which is the content of the last run.
C21_LastFixWasRun ==
    (fix_pc = "done" /\ fix_out.result = "False") =>
        /\ \E i \in 1..Len(fix_out.runs) :
                /\ fix_out.runs[i].content = fix_out.file
                /\ fix_out.runs[i].code # 0
        /\ fix_out.backup = LastOf(fix_out.runs).content

=============================================================================
